---- MODULE Spec2Model ----
(***************************************************************************)
(* The IMAP IDLE handle of async-imap (src/extensions/idle.rs).            *)
(*                                                                         *)
(* One Handle owns a Session.  The caller drives it with init, wait /      *)
(* wait_with_timeout and done; the server delivers frames to the           *)
(* transport and may close it; the holder of a StopSource may trigger it   *)
(* from any other task while the wait future is being polled.              *)
(***************************************************************************)
EXTENDS Naturals, Integers, Sequences, FiniteSets, TLC

\* ------------------------------------------------------------------ bounds
\* Frames the server delivers over the whole run.
MaxFrames == 3
\* Calls of init / wait_with_timeout / done the caller makes.
MaxCalls == 3
\* Largest duration (in ticks) handed to wait_with_timeout.
MaxDur == 1

\* ------------------------------------------------------------------ frames
\* A pulled stream item is a parsed response (imap_proto::Response, of which
\* the handle inspects only the variant, the status, the tag and the
\* information text) or a transport/parse error (Some(Err(e))).
\* Request ids are numbers: the n-th IDLE the handle writes gets id n, and 0
\* stands for the id of a command written before the handle existed (and
\* fills the tag field of an untagged response).
Reason == "IDLE not supported"
NoInfo == "None"

Frame(k, s, t, i) == [kind |-> k, status |-> s, tag |-> t, info |-> i]

NoFrame == Frame("None", "-", 0, "-")
KeepAlive == Frame("Data", "Ok", 0, "Still here")
UntaggedNo == Frame("Data", "No", 0, "Warning")
Continue == Frame("Continue", "-", 0, "idling")
Exists == Frame("MailboxData", "-", 0, "EXISTS 4")
IoError == Frame("Err", "-", 0, "io")

\* Tagged completions: every status for a tag the handle was given, with and
\* without the optional information text for BAD; one for a foreign tag.
DoneFrames(tags) ==
    {Frame("Done", s, t, Reason) : s \in {"Ok", "No", "Bad"}, t \in tags}
        \cup {Frame("Done", "Bad", t, NoInfo) : t \in tags}
        \cup {Frame("Done", "Bad", 0, Reason)}

\* What the server may put on the wire once n IDLE commands have been
\* written: completions carry a tag the handle was given, or a foreign one.
Frames(n) ==
    {KeepAlive, UntaggedNo, Continue, Exists, IoError}
        \cup DoneFrames(1 .. n)

IsDoneFrame(f) == f.kind = "Done"

ErrorTakenAsResponse(f) == FALSE

IsError(f) == f.kind = "Err"

\* ------------------------------------------------------------------ state
VARIABLES
    id,          \* Handle.id: 0 is None, n > 0 is Some(tag n)
    owner,       \* who holds the Session: "handle", "caller" or "dropped"
    pc,          \* where the handle's task stands
    wire,        \* items the transport has received and nobody has pulled
    ended,       \* the server has closed the connection
    unsolicited, \* the unsolicited-response channel, oldest first
    result,      \* what the last finished operation returned
    tokens,      \* number of StopSources created so far (one per wait call)
    triggered,   \* the StopSources that have been triggered
    dur,         \* the duration of the current wait call
    timer,       \* ticks since the current timeout(dur, ..) future was made
    sinceFrame,  \* ticks since the wait loop last observed a frame
    log,         \* history: calls, writes, reads and hand-backs, in order
    opFrom,      \* length of log when the current operation was called
    fwdFrom,     \* length of unsolicited when the current operation was called
    afterTrig,   \* frames the current wait pulled after its source was triggered
    arrived,     \* every item the transport has received, in arrival order
    inited       \* some init call has returned Ok(())

vars == <<id, owner, pc, wire, ended, unsolicited, result, tokens, triggered,
          dur, timer, sinceFrame, log, opFrom, fwdFrom, afterTrig, arrived, inited>>

\* ------------------------------------------------------------------ history
Ev(e, c, f) == [ev |-> e, cmd |-> c, frame |-> f]
CallEv(op) == Ev("call", op, NoFrame)
WriteEv(cmd) == Ev("write", cmd, NoFrame)
ReadEv(f) == Ev("read", "-", f)
HandBackEv == Ev("session", "-", NoFrame)

IsCall(e) == e.ev = "call"
IsWrite(e) == e.ev = "write"
IsRead(e) == e.ev = "read"

RECURSIVE CmdsOf(_)
CmdsOf(s) == IF s = <<>> THEN <<>> ELSE <<Head(s).cmd>> \o CmdsOf(Tail(s))
RECURSIVE FramesOf(_)
FramesOf(s) == IF s = <<>> THEN <<>> ELSE <<Head(s).frame>> \o FramesOf(Tail(s))

\* Commands written to the transport, operations called, items pulled.
written == CmdsOf(SelectSeq(log, IsWrite))
called == CmdsOf(SelectSeq(log, IsCall))
pulled == FramesOf(SelectSeq(log, IsRead))
\* The current (or last) operation, and the items it has pulled.
op == IF opFrom = 0 THEN "none" ELSE log[opFrom].cmd
seen == FramesOf(SelectSeq(SubSeq(log, opFrom + 1, Len(log)), IsRead))
forwarded == SubSeq(unsolicited, fwdFrom + 1, Len(unsolicited))
issued == Cardinality({i \in 1 .. Len(log) : log[i] = WriteEv("IDLE")})

\* ------------------------------------------------------------------ results
Res(o, k, e, t, f) == [op |-> o, kind |-> k, err |-> e, text |-> t, frame |-> f]
NoResult == Res("none", "-", "-", "", NoFrame)
Ok(o) == Res(o, "Ok", "-", "", NoFrame)
Err(o, e, t) == Res(o, "Err", e, t, NoFrame)
Panic(o, t) == Res(o, "Panic", "-", t, NoFrame)

Init ==
    /\ id = 0
    /\ owner = "handle"
    /\ pc = "ready"
    /\ wire = <<>>
    /\ ended = FALSE
    /\ unsolicited = <<>>
    /\ result = NoResult
    /\ tokens = 0
    /\ triggered = {}
    /\ dur = 0
    /\ timer = 0
    /\ sinceFrame = 0
    /\ log = <<>>
    /\ opFrom = 0
    /\ fwdFrom = 0
    /\ afterTrig = 0
    /\ arrived = <<>>
    /\ inited = FALSE

\* ------------------------------------------------------------------ server
Live == pc \notin {"panicked", "consumed"}

Deliver(f) ==
    /\ Live
    /\ ~ended
    /\ Len(pulled) + Len(wire) < MaxFrames
    /\ wire' = Append(wire, f)
    /\ arrived' = Append(arrived, f)
    /\ UNCHANGED <<id, owner, pc, ended, unsolicited, result, tokens, triggered,
                   dur, timer, sinceFrame, log, opFrom, fwdFrom, afterTrig, inited>>

Close ==
    /\ Live
    /\ ~ended
    /\ ended' = TRUE
    /\ UNCHANGED <<id, owner, pc, wire, unsolicited, result, tokens, triggered,
                   dur, timer, sinceFrame, log, opFrom, fwdFrom, afterTrig, arrived, inited>>

\* ------------------------------------------------------------------ session
\* Session::run_command / run_command_untagged: the write reaches the
\* transport or fails with a transport error; a tagged command gets the next
\* unused request id.
RunCommand(cmd) == {[ok |-> TRUE, tag |-> issued + 1], [ok |-> FALSE, tag |-> 0]}
RunCommandUntagged(cmd) == {TRUE, FALSE}

\* parse::handle_unilateral: the response goes to the unsolicited channel.
handle_unilateral(chan, f) == Append(chan, f)

\* Session::check_done_ok on one response: the tagged completion of `ident`
\* settles the command, anything else is handed to the unsolicited channel.
CheckDoneOk(f, ident) ==
    IF IsDoneFrame(f) /\ f.tag = ident
    THEN (IF f.status = "Ok" THEN "ok" ELSE "rejected")
    ELSE "forward"

\* ------------------------------------------------------------------ handle
\* Faulty variants of the definitions below, used to show that the checked
\* properties depend on them.
InitMatchDataEndsInit(f, ident) ==
    IF f.kind \in {"Continue", "Data"} THEN "ok"
    ELSE IF IsDoneFrame(f) /\ f.tag = ident /\ f.status = "Bad"
         THEN (IF f.info = NoInfo THEN "panic" ELSE "refused")
    ELSE "forward"

InitMatchAnyBadRefuses(f, ident) ==
    IF f.kind = "Continue" THEN "ok"
    ELSE IF IsDoneFrame(f) /\ f.status = "Bad"
         THEN (IF f.info = NoInfo THEN "panic" ELSE "refused")
    ELSE "forward"

InitMatchRejectionIgnored(f, ident) ==
    IF f.kind = "Continue" THEN "ok" ELSE "forward"

WaitMatchDoneAsData(f) ==
    IF f.kind = "Data" /\ f.status = "Ok" THEN "continue"
    ELSE IF f.kind = "Continue" THEN "continue"
    ELSE "newdata"

WaitMatchKeepAliveAsData(f) ==
    IF f.kind = "Continue" THEN "continue"
    ELSE IF IsDoneFrame(f) THEN "forward"
    ELSE "newdata"

WaitMatchAnyDataLoops(f) ==
    IF f.kind = "Data" THEN "continue"
    ELSE IF f.kind = "Continue" THEN "continue"
    ELSE IF IsDoneFrame(f) THEN "forward"
    ELSE "newdata"

IdNotStored(old, tag) == old

StreamBeforeInterrupt(fired, ready) == fired /\ ~ready

TimerKeptRunning(t) == t

SessionAlwaysReturned(outcome) == "caller"

AssertionSkipped(i) == TRUE

StopSourceReused(n) == IF n = 0 THEN 1 ELSE n

\* The match of Handle::init on one response.
InitMatch(f, ident) ==
    IF f.kind = "Continue" THEN "ok"
    ELSE IF IsDoneFrame(f) /\ f.tag = ident /\ f.status = "Bad"
         THEN (IF f.info = NoInfo THEN "panic" ELSE "refused")
    ELSE "forward"

\* The match of the wait loop on one response.
WaitMatch(f) ==
    IF f.kind = "Data" /\ f.status = "Ok" THEN "continue"
    ELSE IF f.kind = "Continue" THEN "continue"
    ELSE IF IsDoneFrame(f) THEN "forward"
    ELSE "newdata"

\* Handle.id once run_command("IDLE") has returned the request id `tag`:
\* it is stored before the first response is read.
IdAfterIdleSent(old, tag) == tag

\* TimeoutAt::poll_next polls the StopToken before the wrapped stream,
\* whether or not the stream has an item ready.
InterruptObserved(fired, ready) == fired

\* What the wait loop returns when the interruptible stream yields None
\* (stream ended) or Some(Err(TimedOutError)) (source triggered): both miss
\* the pattern Some(Ok(resp)).
OnNoFrame(fired) == "ManualInterrupt"

\* Every loop iteration makes a new timeout(dur, ..) future: its clock
\* starts again after each observed frame.
TimerAfterFrame(t) == 0

\* assert!(self.id.is_some(), ..) of wait_with_timeout and of done; 0 is None.
IdIsSome(i) == i # 0

\* stop_token::StopSource::new() in wait_with_timeout: every call makes its
\* own source; sources are numbered in the order they are made.
NewStopSource(n) == n + 1

\* Handle::done ends with Ok(self.session) only past both `?`: a failed
\* write or a failed check_done_ok drops the Session with the Handle.
SessionAfterDone(outcome) == IF outcome = "ok" THEN "caller" ELSE "dropped"

Calls == Len(called)

Begin(o, events) ==
    /\ pc = "ready"
    /\ Calls < MaxCalls
    /\ log' = log \o <<CallEv(o)>> \o events
    /\ opFrom' = Len(log) + 1
    /\ fwdFrom' = Len(unsolicited)

Pull(f) ==
    /\ wire # <<>>
    /\ f = Head(wire)
    /\ wire' = Tail(wire)
    /\ log' = Append(log, ReadEv(f))

\* Handle::init up to its first read: run_command("IDLE"), then the id.
InitCall ==
    \E r \in RunCommand("IDLE") :
        /\ Begin("init", IF r.ok THEN <<WriteEv("IDLE")>> ELSE <<>>)
        /\ IF r.ok
           THEN /\ id' = IdAfterIdleSent(id, r.tag)
                /\ pc' = "init_read"
                /\ result' = NoResult
           ELSE /\ id' = id
                /\ pc' = "ready"
                /\ result' = Err("init", "Io", "write failed")
        /\ UNCHANGED <<owner, wire, ended, unsolicited, tokens, triggered,
                       dur, timer, sinceFrame, afterTrig, arrived, inited>>

\* One iteration of init's while-let loop, or its exit at end of stream.
InitRead ==
    /\ pc = "init_read"
    /\ IF wire = <<>>
       THEN /\ ended
            /\ result' = Err("init", "ConnectionRefused", "")
            /\ pc' = "ready"
            /\ UNCHANGED <<wire, log, unsolicited, inited>>
       ELSE \E f \in {Head(wire)} :
            /\ Pull(f)
            /\ IF IsError(f)
               THEN /\ result' = Err("init", "Io", f.info)
                    /\ pc' = "ready"
                    /\ UNCHANGED <<unsolicited, inited>>
               ELSE CASE InitMatch(f, id) = "ok" ->
                            /\ result' = Ok("init")
                            /\ pc' = "ready"
                            /\ inited' = TRUE
                            /\ UNCHANGED unsolicited
                      [] InitMatch(f, id) = "refused" ->
                            /\ result' = Err("init", "ConnectionRefused", f.info)
                            /\ pc' = "ready"
                            /\ UNCHANGED <<unsolicited, inited>>
                      [] InitMatch(f, id) = "panic" ->
                            /\ result' = Panic("init", "unwrap on None")
                            /\ pc' = "panicked"
                            /\ UNCHANGED <<unsolicited, inited>>
                      [] OTHER ->
                            /\ unsolicited' = handle_unilateral(unsolicited, f)
                            /\ UNCHANGED <<pc, result, inited>>
    /\ UNCHANGED <<id, owner, ended, tokens, triggered, dur, timer, sinceFrame,
                   opFrom, fwdFrom, afterTrig, arrived>>

\* wait_with_timeout up to the returned future: the assertion, the sender,
\* the StopSource and the interruptible stream.
WaitCall(d) ==
    /\ Begin("wait", <<>>)
    /\ IF ~IdIsSome(id)
       THEN /\ pc' = "panicked"
            /\ result' = Panic("wait", "Cannot listen to response without starting IDLE")
            /\ UNCHANGED <<tokens, dur, timer, sinceFrame, afterTrig>>
       ELSE /\ pc' = "wait_next"
            /\ result' = NoResult
            /\ tokens' = NewStopSource(tokens)
            /\ dur' = d
            /\ timer' = 0
            /\ sinceFrame' = 0
            /\ afterTrig' = 0
    /\ UNCHANGED <<id, owner, wire, ended, unsolicited, triggered, arrived, inited>>

\* A poll of interruptible_stream.next(), first half: the StopToken.
WaitPollDeadline ==
    /\ pc = "wait_next"
    /\ IF InterruptObserved(tokens \in triggered, wire # <<>>)
       THEN /\ result' = Res("wait", OnNoFrame(TRUE), "-", "", NoFrame)
            /\ pc' = "ready"
       ELSE /\ pc' = "wait_stream"
            /\ UNCHANGED result
    /\ UNCHANGED <<id, owner, wire, ended, unsolicited, tokens, triggered, dur,
                   timer, sinceFrame, log, opFrom, fwdFrom, afterTrig, arrived, inited>>

\* Second half: the wrapped stream, then (when it is pending) the timer of
\* timeout(dur, ..); a pulled response goes through the loop body.
WaitPollStream ==
    /\ pc = "wait_stream"
    /\ IF wire = <<>>
       THEN /\ IF ended
               THEN /\ result' = Res("wait", OnNoFrame(FALSE), "-", "", NoFrame)
                    /\ pc' = "ready"
               ELSE IF timer >= dur
                    THEN /\ result' = Res("wait", "Timeout", "-", "", NoFrame)
                         /\ pc' = "ready"
                    ELSE /\ pc' = "wait_next"
                         /\ UNCHANGED result
            /\ UNCHANGED <<wire, log, unsolicited, timer, sinceFrame, afterTrig>>
       ELSE \E f \in {Head(wire)} :
            /\ Pull(f)
            /\ afterTrig' = IF tokens \in triggered THEN afterTrig + 1 ELSE afterTrig
            /\ IF IsError(f)
               THEN /\ result' = Err("wait", "Io", f.info)
                    /\ pc' = "ready"
                    /\ UNCHANGED <<unsolicited, timer, sinceFrame>>
               ELSE CASE WaitMatch(f) = "continue" ->
                            /\ pc' = "wait_next"
                            /\ timer' = TimerAfterFrame(timer)
                            /\ sinceFrame' = 0
                            /\ UNCHANGED <<unsolicited, result>>
                      [] WaitMatch(f) = "forward" ->
                            /\ unsolicited' = handle_unilateral(unsolicited, f)
                            /\ pc' = "wait_next"
                            /\ timer' = TimerAfterFrame(timer)
                            /\ sinceFrame' = 0
                            /\ UNCHANGED result
                      [] OTHER ->
                            /\ result' = Res("wait", "NewData", "-", "", f)
                            /\ pc' = "ready"
                            /\ UNCHANGED <<unsolicited, timer, sinceFrame>>
    /\ UNCHANGED <<id, owner, ended, tokens, triggered, dur, opFrom, fwdFrom, arrived, inited>>

\* Time passes while a wait is pending; the timer saturates at dur, which
\* reads "the deadline of timeout(dur, ..) has passed".
Tick ==
    /\ pc \in {"wait_next", "wait_stream"}
    /\ timer < dur
    /\ timer' = timer + 1
    /\ sinceFrame' = sinceFrame + 1
    /\ UNCHANGED <<id, owner, pc, wire, ended, unsolicited, result, tokens,
                   triggered, dur, log, opFrom, fwdFrom, afterTrig, arrived, inited>>

\* The holder of the k-th StopSource triggers it (drops it), from any task,
\* during that wait or after it has returned.
Trigger(k) ==
    /\ Live
    /\ k \in (1 .. tokens) \ triggered
    /\ triggered' = triggered \cup {k}
    /\ UNCHANGED <<id, owner, pc, wire, ended, unsolicited, result, tokens,
                   dur, timer, sinceFrame, log, opFrom, fwdFrom, afterTrig, arrived, inited>>

\* Handle::done up to check_done_ok: the assertion and the untagged DONE.
DoneCall ==
    \E sent \in RunCommandUntagged("DONE") :
        /\ Begin("done", IF IdIsSome(id) /\ sent THEN <<WriteEv("DONE")>> ELSE <<>>)
        /\ IF ~IdIsSome(id)
           THEN /\ pc' = "panicked"
                /\ result' = Panic("done", "Cannot call DONE on a non initialized idle connection")
                /\ UNCHANGED owner
           ELSE IF sent
                THEN /\ pc' = "done_check"
                     /\ result' = NoResult
                     /\ UNCHANGED owner
                ELSE /\ pc' = "consumed"
                     /\ result' = Err("done", "Io", "write failed")
                     /\ owner' = SessionAfterDone("write failed")
        /\ UNCHANGED <<id, wire, ended, unsolicited, tokens, triggered, dur,
                       timer, sinceFrame, afterTrig, arrived, inited>>

\* check_done_ok(id, Some(sender)), one response at a time, then Ok(session).
DoneCheck ==
    /\ pc = "done_check"
    /\ IF wire = <<>>
       THEN /\ ended
            /\ result' = Err("done", "ConnectionLost", "")
            /\ pc' = "consumed"
            /\ owner' = SessionAfterDone("lost")
            /\ UNCHANGED <<wire, log, unsolicited>>
       ELSE \E f \in {Head(wire)} :
            /\ wire' = Tail(wire)
            /\ IF IsError(f)
               THEN /\ result' = Err("done", "Io", f.info)
                    /\ pc' = "consumed"
                    /\ owner' = SessionAfterDone("io")
                    /\ log' = Append(log, ReadEv(f))
                    /\ UNCHANGED unsolicited
               ELSE CASE CheckDoneOk(f, id) = "ok" ->
                            /\ result' = Ok("done")
                            /\ pc' = "consumed"
                            /\ owner' = SessionAfterDone("ok")
                            /\ log' = log \o <<ReadEv(f), HandBackEv>>
                            /\ UNCHANGED unsolicited
                      [] CheckDoneOk(f, id) = "rejected" ->
                            /\ result' = Err("done", f.status, f.info)
                            /\ pc' = "consumed"
                            /\ owner' = SessionAfterDone("rejected")
                            /\ log' = Append(log, ReadEv(f))
                            /\ UNCHANGED unsolicited
                      [] OTHER ->
                            /\ unsolicited' = handle_unilateral(unsolicited, f)
                            /\ log' = Append(log, ReadEv(f))
                            /\ UNCHANGED <<pc, result, owner>>
    /\ UNCHANGED <<id, ended, tokens, triggered, dur, timer, sinceFrame,
                   opFrom, fwdFrom, afterTrig, arrived, inited>>

Next ==
    \/ \E f \in Frames(issued) : Deliver(f)
    \/ Close
    \/ InitCall
    \/ InitRead
    \/ \E d \in 0 .. MaxDur : WaitCall(d)
    \/ WaitPollDeadline
    \/ WaitPollStream
    \/ Tick
    \/ \E k \in 1 .. tokens : Trigger(k)
    \/ DoneCall
    \/ DoneCheck

Spec == Init /\ [][Next]_vars

\* ------------------------------------------------------------------ claims
Last(q) == q[Len(q)]

IdleWritten == op = "init" /\ Len(log) > opFrom /\ log[opFrom + 1] = WriteEv("IDLE")

\* A tagged completion of the pending IDLE with a negative status and a text.
IsRejection(f) ==
    /\ IsDoneFrame(f)
    /\ f.tag = id
    /\ f.status \in {"No", "Bad"}
    /\ f.info # NoInfo

\* A frame that is neither a positive keepalive, nor a continuation marker,
\* nor a tagged completion (nor a failed read).
Qualifying(f) ==
    /\ ~IsError(f)
    /\ ~(f.kind = "Data" /\ f.status = "Ok")
    /\ f.kind # "Continue"
    /\ ~IsDoneFrame(f)

\* C1: wait, wait_with_timeout or done on a Handle on which no init has
\* returned successfully panics and never proceeds (the id is present only
\* after a successful init).
C1_MisusePanics ==
    (op \in {"wait", "done"} /\ ~inited) => pc = "panicked"

\* C2: a tagged completion for the IDLE id with a negative status (NO or BAD)
\* read by init is the last frame init reads: init returns ConnectionRefused
\* with the server's text and does not forward the frame.
C2_NegativeCompletionRefuses ==
    op = "init" =>
        \A i \in 1 .. Len(seen) :
            IsRejection(seen[i]) =>
                /\ i = Len(seen)
                /\ pc = "ready"
                /\ result = Err("init", "ConnectionRefused", seen[i].info)
                /\ forwarded = SubSeq(seen, 1, i - 1)

\* C3: in a wait call the tagged completions pulled are exactly the frames
\* forwarded to the unsolicited channel, once each and in order; none is
\* returned as NewData and none ends the wait.
C3_DoneForwardedNeverNewData ==
    (op = "wait" /\ pc # "panicked") =>
        /\ forwarded = SelectSeq(seen, IsDoneFrame)
        /\ result.kind = "NewData" => ~IsDoneFrame(result.frame)
        /\ (pc = "ready" /\ seen # <<>> /\ IsDoneFrame(Last(seen))) =>
               result.kind \in {"Timeout", "ManualInterrupt"}

C3_Witness ==
    /\ op = "wait"
    /\ pc = "ready"
    /\ result.kind = "NewData"
    /\ Len(seen) = 2
    /\ IsDoneFrame(seen[1])
    /\ unsolicited = <<seen[1]>>

\* C4: the first qualifying frame a wait pulls ends it with NewData carrying
\* that frame; the frames before it were pulled in arrival order and
\* everything that arrived after it is still on the wire.
C4_FirstQualifyingIsNewData ==
    (op = "wait" /\ pc # "panicked") =>
        /\ \A i \in 1 .. Len(seen) :
               Qualifying(seen[i]) =>
                   /\ i = Len(seen)
                   /\ pc = "ready"
                   /\ result = Res("wait", "NewData", "-", "", seen[i])
        /\ result.kind = "NewData" =>
               /\ seen # <<>>
               /\ result.frame = Last(seen)
               /\ Qualifying(result.frame)
        /\ arrived = pulled \o wire

C4_Witness ==
    /\ op = "wait"
    /\ pc = "ready"
    /\ result.kind = "NewData"
    /\ seen = <<KeepAlive, Exists>>
    /\ arrived = <<Continue, KeepAlive, Exists>>

\* C5 as stated: a wait pulls no frame after its interrupt source was
\* triggered.
C5_NoPullAfterTrigger ==
    (op = "wait" /\ inited) => afterTrig = 0

\* C5 as amended: after the trigger a wait pulls at most one more frame, the
\* one whose pull had already passed the interrupt check; every pull that
\* starts after the trigger returns ManualInterrupt without touching the
\* stream, whatever is waiting on the wire.
C5_AtMostOnePullAfterTrigger ==
    /\ [](afterTrig <= 1)
    /\ [][(pc = "wait_next" /\ tokens \in triggered /\ pc' # pc) =>
              /\ pc' = "ready"
              /\ result'.kind = "ManualInterrupt"
              /\ wire' = wire
              /\ log' = log]_vars

C5_Witness ==
    /\ op = "wait"
    /\ pc = "ready"
    /\ result.kind = "ManualInterrupt"
    /\ tokens \in triggered
    /\ afterTrig = 1
    /\ wire # <<>>

\* C6: Timeout is returned only when the full duration has passed since the
\* last frame the loop observed (or since the call); with the stream silent
\* and open, a pull whose deadline has passed returns Timeout.
C6_TimeoutOnlyAfterSilence ==
    /\ []((op = "wait" /\ result.kind = "Timeout") => sinceFrame = dur)
    /\ [][(pc = "wait_stream" /\ wire = <<>> /\ ~ended /\ sinceFrame = dur
               /\ pc' # pc) => result'.kind = "Timeout"]_vars

C6_Witness ==
    /\ op = "wait"
    /\ result.kind = "Timeout"
    /\ dur > 0
    /\ seen = <<KeepAlive>>

\* C7: a wait returns ManualInterrupt only if its own interrupt source was
\* triggered.
C7_InterruptOnlyIfTriggered ==
    (op = "wait" /\ inited /\ result.kind = "ManualInterrupt") =>
        tokens \in triggered

\* C8: an init that has sent IDLE and returns without having read a
\* continuation marker, a completion of its id or a failed read has reached
\* the end of the stream, returns ConnectionRefused, and has forwarded every
\* frame it read; and an init that stands at the end of the stream is not
\* blocked: its next step is that return.
C8_EndOfStreamRefuses ==
    /\ (/\ IdleWritten
         /\ pc = "ready"
         /\ \A i \in 1 .. Len(seen) :
                /\ seen[i].kind # "Continue"
                /\ ~IsError(seen[i])
                /\ ~(IsDoneFrame(seen[i]) /\ seen[i].tag = id))
            => /\ ended
               /\ wire = <<>>
               /\ result = Err("init", "ConnectionRefused", "")
               /\ forwarded = seen
    /\ (pc = "init_read" /\ ended /\ wire = <<>>) => ENABLED InitRead

C8_Witness ==
    /\ IdleWritten
    /\ pc = "ready"
    /\ ended
    /\ seen = <<KeepAlive, Frame("Done", "Bad", 0, Reason)>>
    /\ result.err = "ConnectionRefused"

\* C9 as stated: when a continuation marker and then a BAD completion of the
\* IDLE id with a reason arrive during init, init returns an error carrying
\* that reason.
C9_BadAfterContinuationFails ==
    (/\ IdleWritten
     /\ pc = "ready"
     /\ Len(seen \o wire) >= 2
     /\ SubSeq(seen \o wire, 1, 2) = <<Continue, Frame("Done", "Bad", id, Reason)>>)
        => (result.kind = "Err" /\ result.text = Reason)

\* C9 as amended: init ends at the first continuation marker with success,
\* leaving what follows unread; a BAD completion of the IDLE id with a
\* reason that init reads (none came before a continuation marker) ends it
\* with an error carrying that reason.
C9_BadBeforeContinuationFails ==
    op = "init" =>
        \A i \in 1 .. Len(seen) :
            /\ seen[i].kind = "Continue" =>
                   (i = Len(seen) /\ pc = "ready" /\ result = Ok("init"))
            /\ (IsRejection(seen[i]) /\ seen[i].status = "Bad") =>
                   /\ i = Len(seen)
                   /\ pc = "ready"
                   /\ result.kind = "Err"
                   /\ result.text = seen[i].info

C9_Witness ==
    /\ op = "init"
    /\ pc = "ready"
    /\ result = Ok("init")
    /\ seen = <<Continue>>
    /\ wire = <<Frame("Done", "Bad", id, Reason)>>

\* C10: init then done, with the server answering IDLE by a continuation
\* marker and DONE by a positive completion and sending nothing else, and
\* both writes reaching the transport: done succeeds and hands the Session
\* back, after IDLE written, continuation read, DONE written and the
\* completion of init's id read, in that order.
C10_InitThenDone ==
    (/\ called = <<"init", "done">>
     /\ arrived = <<Continue, Frame("Done", "Ok", 1, Reason)>>
     /\ written # <<>>
     /\ result.err # "Io")
        => \/ pc = "done_check" /\ owner = "handle"
           \/ /\ pc = "consumed"
              /\ owner = "caller"
              /\ result = Ok("done")
              /\ id = 1
              /\ log = <<CallEv("init"), WriteEv("IDLE"), ReadEv(Continue),
                         CallEv("done"), WriteEv("DONE"),
                         ReadEv(Frame("Done", "Ok", 1, Reason)), HandBackEv>>

C10_Witness ==
    /\ called = <<"init", "done">>
    /\ arrived = <<Continue, Frame("Done", "Ok", 1, Reason)>>
    /\ owner = "caller"
    /\ wire = <<>>

DoneWritten == op = "done" /\ Len(log) > opFrom /\ log[opFrom + 1] = WriteEv("DONE")

\* The tagged completion of the pending IDLE, by status.
IsCompletion(f, statuses) ==
    /\ IsDoneFrame(f)
    /\ f.tag = id
    /\ f.status \in statuses

\* C11: the caller holds the Session exactly when done wrote DONE and read a
\* positive completion of the IDLE id; a done whose write failed, or that
\* read a negative completion, has returned an error (the server's status
\* and text for a negative completion) and the Session is gone.
C11_SessionIffDoneConfirmed ==
    /\ owner = "caller" <=>
           (DoneWritten /\ \E i \in 1 .. Len(seen) : IsCompletion(seen[i], {"Ok"}))
    /\ owner = "caller" => (pc = "consumed" /\ result = Ok("done"))
    /\ (op = "done" /\ pc = "consumed" /\ ~DoneWritten) =>
           (owner = "dropped" /\ result = Err("done", "Io", "write failed"))
    /\ op = "done" =>
           \A i \in 1 .. Len(seen) :
               IsCompletion(seen[i], {"No", "Bad"}) =>
                   /\ i = Len(seen)
                   /\ owner = "dropped"
                   /\ result = Err("done", seen[i].status, seen[i].info)

C11_Witness ==
    /\ DoneWritten
    /\ inited
    /\ seen = <<Frame("Done", "No", id, Reason)>>
    /\ owner = "dropped"
    /\ result.kind = "Err"

\* C12: a transport or parse error pulled by wait is what wait returns, with
\* the error's own text; the loop stops there, so the error is the last item
\* this wait pulled, and it is neither forwarded nor reported as new data.
C12_WaitReturnsPullError ==
    op = "wait" =>
        \A i \in 1 .. Len(seen) :
            seen[i].kind = "Err" =>
                /\ i = Len(seen)
                /\ pc = "ready"
                /\ result = Err("wait", "Io", seen[i].info)
                /\ \A j \in 1 .. Len(forwarded) : forwarded[j].kind # "Err"

C12_Witness ==
    /\ op = "wait"
    /\ inited
    /\ seen = <<IoError>>
    /\ wire # <<>>
    /\ result = Err("wait", "Io", IoError.info)

\* The commands the current operation has written so far.
wrote == CmdsOf(SelectSeq(SubSeq(log, opFrom + 1, Len(log)), IsWrite))

\* The re-issue interval of the Handle documentation (29 minutes), taken as
\* the unit of the model's clock; the 24 hours of Handle::wait are longer.
ReissueEvery == 1

\* C13: a wait that has been pending for the re-issue interval has
\* terminated the IDLE and issued it again: it has written DONE, then IDLE.
C13_WaitReissuesIdle ==
    (/\ op = "wait"
     /\ inited
     /\ pc \in {"wait_next", "wait_stream"}
     /\ seen = <<>>
     /\ sinceFrame >= ReissueEvery) =>
        (/\ Len(wrote) >= 2
         /\ wrote[1] = "DONE"
         /\ wrote[2] = "IDLE")

IsSilent(f) == (f.kind = "Data" /\ f.status = "Ok") \/ f.kind = "Continue"

ClassOf(f) ==
    IF IsSilent(f) THEN "loop"
    ELSE IF IsDoneFrame(f) THEN "forward"
    ELSE "newdata"

\* C15: the classifier of wait is total and NewData is its default: a wait
\* goes on only past an untagged OK data response or a continuation
\* (silently) or past a tagged completion (forwarded); a response of any
\* other shape, an untagged NO or a mailbox update such as EXISTS, is the
\* last one the wait pulls and is returned as NewData.
C15_NewDataIsDefault ==
    (op = "wait" /\ pc # "panicked") =>
        /\ \A i \in 1 .. Len(seen) :
               LET f == seen[i]
                   endsWait == i = Len(seen) /\ pc = "ready" /\ result.frame = f
               IN  \/ IsError(f)
                   \/ ClassOf(f) = "loop" /\ ~endsWait
                   \/ ClassOf(f) = "forward" /\ ~endsWait
                   \/ ClassOf(f) = "newdata" /\ endsWait /\ result.kind = "NewData"
        /\ Len(SelectSeq(seen, IsSilent)) + Len(forwarded)
               + (IF result.kind \in {"NewData", "Err"} THEN 1 ELSE 0) = Len(seen)
        /\ \A j \in 1 .. Len(forwarded) : ClassOf(forwarded[j]) = "forward"

C15_Witness ==
    /\ op = "wait"
    /\ inited
    /\ seen = <<KeepAlive, UntaggedNo>>
    /\ unsolicited = <<>>
    /\ result = Res("wait", "NewData", "-", "", UntaggedNo)

\* A response that decides nothing about the pending IDLE: not the
\* continuation, not a negative completion carrying the IDLE id.
IsBystander(f) ==
    /\ ~IsError(f)
    /\ f.kind # "Continue"
    /\ ~IsCompletion(f, {"No", "Bad"})

\* C16: every response init reads that is neither the continuation nor a
\* negative completion of the IDLE id is forwarded once, in the order read,
\* and init goes on reading after it: init is still reading, or the stream
\* ended afterwards; it never made init succeed or fail.
C16_InitForwardsBystanders ==
    op = "init" =>
        /\ SelectSeq(forwarded, IsBystander) = SelectSeq(seen, IsBystander)
        /\ \A i \in 1 .. Len(seen) :
               IsBystander(seen[i]) =>
                   \/ i < Len(seen)
                   \/ pc = "init_read" /\ result = NoResult
                   \/ pc = "ready" /\ ended /\ wire = <<>>
                        /\ result = Err("init", "ConnectionRefused", "")

C16_Witness ==
    /\ op = "init"
    /\ pc = "init_read"
    /\ seen = <<Frame("Done", "Bad", 0, Reason), KeepAlive, Frame("Done", "Ok", id, Reason)>>
    /\ forwarded = seen

\* C17 as stated: at most one response is classified after the trigger,
\* and the interrupt is looked at only when no response is available, so a
\* wait never returns ManualInterrupt past a response that is ready.
C17_ReadyFrameWins ==
    /\ [](op = "wait" => afterTrig <= 1)
    /\ [][(/\ pc = "wait_next"
           /\ inited
           /\ tokens \in triggered
           /\ result'.kind = "ManualInterrupt") => wire = <<>>]_vars

\* C17, amended: at most one response is classified after the trigger, the
\* one whose pull had passed the interrupt check before the trigger; every
\* pull looks at the interrupt first, so once the source is triggered a
\* response that is ready loses: the wait returns ManualInterrupt and the
\* response stays unread on the stream, neither forwarded nor dropped.
C17_InterruptCheckedFirst ==
    /\ [](op = "wait" => afterTrig <= 1)
    /\ []((op = "wait" /\ pc = "wait_stream" /\ tokens \in triggered) => afterTrig = 0)
    /\ [][(/\ pc = "wait_next"
           /\ tokens \in triggered
           /\ wire # <<>>
           /\ pc' # pc) =>
              (/\ pc' = "ready"
               /\ result'.kind = "ManualInterrupt"
               /\ wire' = wire
               /\ unsolicited' = unsolicited)]_vars

C17_Witness ==
    /\ op = "wait"
    /\ inited
    /\ pc = "ready"
    /\ result.kind = "ManualInterrupt"
    /\ tokens \in triggered
    /\ seen = <<>>
    /\ afterTrig = 0
    /\ ~ended
    /\ Len(wire) = 2

\* The number of wait calls made so far.
waits == Cardinality({i \in 1 .. Len(log) : log[i] = CallEv("wait")})

\* C18: wait can be called again, each call with its own interrupt source.
\* A wait leaves the IDLE id as it found it and ends back in the state from
\* which wait can be called; the n-th wait listens to the n-th source, which
\* is untriggered when the call makes it; and a pull returns ManualInterrupt
\* at the interrupt check only if the source of this very call was
\* triggered, whatever happened to the sources of earlier calls.
C18_FreshSourcePerWait ==
    /\ []((op = "wait" /\ pc # "panicked") =>
              /\ tokens = waits
              /\ IdIsSome(id)
              /\ pc \in {"wait_next", "wait_stream", "ready"})
    /\ [][(pc \in {"wait_next", "wait_stream"}) => (id' = id)]_vars
    /\ [][(tokens' # tokens) =>
              (tokens' \notin triggered' /\ tokens' \notin 1 .. tokens)]_vars
    /\ [][(pc = "wait_next" /\ result'.kind = "ManualInterrupt") =>
              waits \in triggered]_vars

C18_Witness ==
    /\ called = <<"init", "wait", "wait">>
    /\ inited
    /\ tokens = 2
    /\ triggered = {1}
    /\ pc = "ready"
    /\ result.kind = "Timeout"

\* The current operation ended on the last item it pulled and returned it:
\* as NewData, or as the error made from it.
ReturnedLast ==
    \/ result.kind = "NewData" /\ seen # <<>> /\ result.frame = Last(seen)
    \/ /\ result.kind = "Err"
       /\ seen # <<>>
       /\ result.text = Last(seen).info
       /\ IsError(Last(seen)) \/ IsCompletion(Last(seen), {"No", "Bad"})

\* C19: no frame is lost or duplicated. What arrived is what was pulled
\* followed by what is still unread, in arrival order; every item the
\* current operation pulled has one fate: consumed without a trace (a
\* keepalive or continuation in wait, the awaited continuation in init, the
\* awaited completion in done), forwarded, or returned by the operation as
\* NewData or as an error; and a wait that ended by Timeout or
\* ManualInterrupt pulled only items it classified as silent or forwarded.
C19_NoFrameLostOrDuplicated ==
    /\ arrived = pulled \o wire
    /\ Len(seen) = Len(forwarded)
                    + (IF op = "wait" THEN Len(SelectSeq(seen, IsSilent)) ELSE 0)
                    + (IF result.kind = "Ok" THEN 1 ELSE 0)
                    + (IF ReturnedLast THEN 1 ELSE 0)
    /\ (op = "wait" /\ result.kind \in {"Timeout", "ManualInterrupt"}) =>
           \A i \in 1 .. Len(seen) : IsSilent(seen[i]) \/ IsDoneFrame(seen[i])

\* C20: init never panics: whatever the server sends, init is still reading
\* or has ended with success or with an error value.
C20_InitNeverPanics ==
    op = "init" =>
        /\ pc \in {"init_read", "ready"}
        /\ result.kind \in {"-", "Ok", "Err"}

====
